---- MODULE Spec2Model ----
(***************************************************************************)
(* Model of personalized.py: a Streamlit page that extracts text from an   *)
(* uploaded document, composes a prompt for a text-generation model and    *)
(* keeps the generated and the edited message in st.session_state.         *)
(*                                                                         *)
(* Every user interaction re-runs the script from top to bottom; one       *)
(* action of the model is one such run.                                    *)
(*                                                                         *)
(* Texts.  A Python str is modelled run-length encoded: a text is a        *)
(* sequence of runs, a run [c |-> ch, n |-> k] being k >= 1 copies of the   *)
(* character ch, and no two neighbouring runs carry the same character.    *)
(* Slicing, stripping, joining and length are computed on that encoding,   *)
(* so that a 15,000 character document costs three runs.  The characters   *)
(* " " and "\n" are whitespace.                                            *)
(***************************************************************************)
EXTENDS Integers, Sequences, FiniteSets, TLC

VARIABLES
    platform,        \* st.selectbox "Choose Message Platform"
    message_type,    \* st.selectbox "Select Message Type"
    uploaded_file,   \* st.file_uploader: <<>> (no file) or <<file>>
    session_state,   \* st.session_state: generated_message, edited_message, show_edit
    outcome,         \* history: which branch the last run of the script took
    form,            \* history: the text inputs the last run read
    sent,            \* history: the prompts the last run passed to model.generate_content
    received,        \* history: the texts the last run got back from the model
    before,          \* history: st.session_state as the last run found it
    generated_for    \* history: the platform of the run that stored generated_message

vars == <<platform, message_type, uploaded_file, session_state,
          outcome, form, sent, received, before, generated_for>>

\* ------------------------------------------------------------------ texts

Run(ch, k) == [c |-> ch, n |-> k]

Whitespace == {" ", "\n"}

Min(a, b) == IF a <= b THEN a ELSE b

RECURSIVE TextLen(_)
\* len(s)
TextLen(t) == IF t = <<>> THEN 0 ELSE Head(t).n + TextLen(Tail(t))

\* s + t
Cat(s, t) ==
    IF s = <<>> THEN t
    ELSE IF t = <<>> THEN s
    ELSE IF s[Len(s)].c = t[1].c
         THEN SubSeq(s, 1, Len(s) - 1)
              \o <<Run(t[1].c, s[Len(s)].n + t[1].n)>>
              \o Tail(t)
         ELSE s \o t

RECURSIVE LStrip(_)
LStrip(t) ==
    IF t = <<>> THEN <<>>
    ELSE IF Head(t).c \in Whitespace THEN LStrip(Tail(t)) ELSE t

RECURSIVE RStrip(_)
RStrip(t) ==
    IF t = <<>> THEN <<>>
    ELSE IF t[Len(t)].c \in Whitespace THEN RStrip(SubSeq(t, 1, Len(t) - 1)) ELSE t

\* s.strip()
Strip(t) == RStrip(LStrip(t))

RECURSIVE Slice(_, _)
\* s[:k]
Slice(t, k) ==
    IF t = <<>> \/ k <= 0 THEN <<>>
    ELSE IF Head(t).n <= k
         THEN Cat(<<Head(t)>>, Slice(Tail(t), k - Head(t).n))
         ELSE <<Run(Head(t).c, k)>>

RECURSIVE Join(_)
\* "\n".join(parts)
Join(parts) ==
    IF parts = <<>> THEN <<>>
    ELSE IF Len(parts) = 1 THEN parts[1]
    ELSE Cat(Cat(parts[1], <<Run("\n", 1)>>), Join(Tail(parts)))

RECURSIVE IsPrefix(_, _)
\* t.startswith(p)
IsPrefix(p, t) ==
    IF p = <<>> THEN TRUE
    ELSE IF t = <<>> THEN FALSE
    ELSE /\ Head(p).c = Head(t).c
         /\ \/ Head(p).n = Head(t).n /\ IsPrefix(Tail(p), Tail(t))
            \/ Head(p).n < Head(t).n /\ Tail(p) = <<>>

\* ---------------------------------------------------------------- limits

\* user_content[:10000]
MaxBackground == 10000

\* How far the longest document of the model exceeds MaxBackground.
ExtraChars == 5000

\* A fixed string of the source, taken as one character.
Literal(s) == <<Run(s, 1)>>

\* ----------------------------------------------------------------- files

\* A file: its name split at the dots, whether its reader can parse it, and
\* its units in document order (the paragraphs of a docx, the pages of a pdf,
\* the shapes of a pptx slide after slide, the whole content of a txt).
\* has_text = FALSE is a pdf page whose extract_text() is None, or a pptx
\* shape without a text attribute.
File(name, readable, units) == [name |-> name, readable |-> readable, units |-> units]

Unit(t) == [has_text |-> TRUE, text |-> t]

NoText == [has_text |-> FALSE, text |-> <<>>]

RECURSIVE DocxParagraphs(_)
\* [para.text.strip() for para in doc.paragraphs if para.text.strip()]
DocxParagraphs(units) ==
    IF units = <<>> THEN <<>>
    ELSE IF Strip(Head(units).text) # <<>>
         THEN <<Strip(Head(units).text)>> \o DocxParagraphs(Tail(units))
         ELSE DocxParagraphs(Tail(units))

read_docx(file) == Join(DocxParagraphs(file.units))

RECURSIVE PdfPages(_)
\* [page.extract_text() for page in pdf.pages if page.extract_text()]
PdfPages(units) ==
    IF units = <<>> THEN <<>>
    ELSE IF Head(units).has_text /\ Head(units).text # <<>>
         THEN <<Head(units).text>> \o PdfPages(Tail(units))
         ELSE PdfPages(Tail(units))

read_pdf(file) == Join(PdfPages(file.units))

RECURSIVE PptxTexts(_)
\* texts.append(shape.text.strip()) for every shape that has a text
PptxTexts(units) ==
    IF units = <<>> THEN <<>>
    ELSE IF Head(units).has_text
         THEN <<Strip(Head(units).text)>> \o PptxTexts(Tail(units))
         ELSE PptxTexts(Tail(units))

read_pptx(file) == Join(PptxTexts(file.units))

\* file.read().decode("utf-8")
read_txt(file) == file.units[1].text

\* uploaded_file.name.split(".")[-1]
Ext(file) == file.name[Len(file.name)]

SupportedExt == {"docx", "pdf", "pptx", "txt"}

UserContent_CaseInsensitive(upload) ==
    IF upload = <<>> THEN <<>>
    ELSE LET file == upload[1]
             ext == Ext(file)
         IN  IF ext \in {"docx", "DOCX"} THEN read_docx(file)
             ELSE IF ext \in {"pdf", "PDF"} THEN read_pdf(file)
             ELSE IF ext \in {"pptx", "PPTX"} THEN read_pptx(file)
             ELSE IF ext \in {"txt", "TXT"} THEN read_txt(file)
             ELSE <<>>

\* user_content after the upload section of the script has run
UserContent(upload) ==
    IF upload = <<>> THEN <<>>
    ELSE LET file == upload[1]
             ext == Ext(file)
         IN  IF ext = "docx" THEN read_docx(file)
             ELSE IF ext = "pdf" THEN read_pdf(file)
             ELSE IF ext = "pptx" THEN read_pptx(file)
             ELSE IF ext = "txt" THEN read_txt(file)
             ELSE <<>>

\* st.error("Unsupported file type.") is shown by the run
UnsupportedFileType(upload) == upload # <<>> /\ Ext(upload[1]) \notin SupportedExt

\* The reader raises (a file that is not what its extension says, bytes that
\* are not UTF-8): the run ends at the upload section and renders nothing
\* below it.
ReaderRaises(upload) ==
    upload # <<>> /\ Ext(upload[1]) \in SupportedExt /\ ~upload[1].readable

LongText == <<Run("a", MaxBackground - 1), Run("b", 1), Run("c", ExtraChars)>>

OverByOne == <<Run("a", MaxBackground), Run("b", 1)>>

Files ==
    { File(<<"deck", "txt">>, TRUE, <<Unit(LongText)>>),
      File(<<"notes", "v2", "txt">>, TRUE, <<Unit(OverByOne)>>),
      File(<<"blank", "txt">>, TRUE, <<Unit(<<Run(" ", 2)>>)>>),
      File(<<"bad", "txt">>, FALSE, <<Unit(<<>>)>>),
      File(<<"brief", "docx">>, TRUE,
           <<Unit(<<Run(" ", 1)>>), Unit(<<Run("x", 3)>>), Unit(<<>>),
             Unit(<<Run(" ", 1), Run("y", 2), Run(" ", 1)>>)>>),
      File(<<"scan", "pdf">>, TRUE, <<NoText, Unit(<<>>), Unit(<<Run("p", 4)>>)>>),
      File(<<"slides", "pptx">>, TRUE,
           <<NoText, Unit(<<Run(" ", 1), Run("s", 2), Run(" ", 1)>>), Unit(<<>>)>>),
      File(<<"REPORT", "PDF">>, TRUE, <<Unit(<<Run("p", 4)>>)>>) }

Uploads == {<<>>} \cup {<<f>> : f \in Files}

\* ------------------------------------------------------------- templates

Platforms == {"LinkedIn", "WhatsApp", "Email"}

MessageTypes == {"Generic", "Personalized"}

default_prompts ==
    [p \in Platforms |->
        CASE p = "LinkedIn" -> Literal("LinkedIn Message Prompt: ... Max 70 words.")
          [] p = "WhatsApp" -> Literal("WhatsApp Message Prompt: ... max 50 words ...")
          [] p = "Email" -> Literal("Email Prompt: ... Stay under 140 words. ...")]

filename_map ==
    [p \in Platforms |->
        CASE p = "LinkedIn" -> "linkdln.docx"
          [] p = "WhatsApp" -> "whatsapp.docx"
          [] p = "Email" -> "email.docx"]

OverridePaths == {filename_map[p] : p \in Platforms}

\* The working directory: for each override path, <<>> (no such file) or <<file>>.
Disks ==
    { [path \in OverridePaths |-> <<>>],
      [path \in OverridePaths |->
          <<File(<<path>>, TRUE, <<Unit(<<Run(" ", 1)>>), Unit(<<Run("house style of ", 1), Run(path, 1)>>)>>)>>] }

load_sales_prompt(p, disk) ==
    LET file_path == IF p \in Platforms THEN filename_map[p] ELSE ""
    IN  IF file_path # "" /\ disk[file_path] # <<>>
        THEN read_docx(disk[file_path][1])
        ELSE IF p \in Platforms THEN default_prompts[p]
             ELSE Literal("Message format not found.")

\* --------------------------------------------------------------- prompts

\* What the text widgets can hold.
CustomPrompts == {<<>>, <<Run(" ", 1)>>, Literal("a warm note to a CMO")}

RecipientNames == {<<>>, <<Run(" ", 1)>>, Literal("Ada")}

CompanyNames == {<<>>, Literal("Acme")}

JobTitles == {<<>>, Literal("CMO")}

EditInstructions ==
    {<<>>, <<Run(" ", 1)>>, <<Run(" ", 1), Run("make it shorter", 1), Run("\n", 1)>>}

EmptyForm ==
    [custom_prompt |-> <<>>, recipient_name |-> <<>>, company_name |-> <<>>,
     job_title |-> <<>>, edit_instruction |-> <<>>]

\* What model.generate_content(...).text does: it raises, or it yields a text.
Replies ==
    {[ok |-> FALSE, text |-> <<>>]}
    \cup {[ok |-> TRUE, text |-> t] : t \in {<<>>, Literal("message A"), Literal("message B")}}

Truncated_Whole(user_content) == user_content

\* user_content[:10000]
Truncated(user_content) == Slice(user_content, MaxBackground)

NothingToGenerate_Unstripped(user_content, custom_prompt) ==
    user_content = <<>> /\ Strip(custom_prompt) = <<>>

\* not user_content.strip() and not custom_prompt.strip()
NothingToGenerate(user_content, custom_prompt) ==
    Strip(user_content) = <<>> /\ Strip(custom_prompt) = <<>>

MissingRecipient_StructuredOnly(mtype, custom_prompt, recipient_name, company_name) ==
    /\ mtype = "Personalized"
    /\ custom_prompt = <<>>
    /\ (Strip(recipient_name) = <<>> \/ Strip(company_name) = <<>>)

\* message_type == "Personalized" and
\*     (not recipient_name.strip() or not company_name.strip())
\* custom_prompt is not read by the condition.
MissingRecipient(mtype, custom_prompt, recipient_name, company_name) ==
    /\ mtype = "Personalized"
    /\ (Strip(recipient_name) = <<>> \/ Strip(company_name) = <<>>)

\* The three f-strings of the generate handler.  A prompt is the record of
\* the values interpolated into the f-string; shape names its fixed text.
GenericPrompt(p, prompt_template, user_content) ==
    [shape |-> "generic", prompt_template |-> prompt_template, platform |-> p,
     user_content |-> Truncated(user_content)]

CustomPrompt(p, custom_prompt, user_content) ==
    [shape |-> "custom", custom_prompt |-> custom_prompt, platform |-> p,
     user_content |-> Truncated(user_content)]

PersonalizedPrompt(p, prompt_template, f, user_content) ==
    [shape |-> "personalized", prompt_template |-> prompt_template, platform |-> p,
     recipient_name |-> f.recipient_name, company_name |-> f.company_name,
     job_title |-> f.job_title, user_content |-> Truncated(user_content)]

FinalPrompt_StrippedTest(mtype, p, prompt_template, f, user_content) ==
    IF mtype = "Generic" THEN GenericPrompt(p, prompt_template, user_content)
    ELSE IF Strip(f.custom_prompt) # <<>> THEN CustomPrompt(p, f.custom_prompt, user_content)
    ELSE PersonalizedPrompt(p, prompt_template, f, user_content)

\* if message_type == "Generic": ... elif custom_prompt: ... else: ...
FinalPrompt(mtype, p, prompt_template, f, user_content) ==
    IF mtype = "Generic" THEN GenericPrompt(p, prompt_template, user_content)
    ELSE IF f.custom_prompt # <<>> THEN CustomPrompt(p, f.custom_prompt, user_content)
    ELSE PersonalizedPrompt(p, prompt_template, f, user_content)

EditPrompt_Compounding(p, edit_instruction, ss) ==
    [shape |-> "edit", platform |-> p, edit_instruction |-> Strip(edit_instruction),
     original_message |->
        IF ss.edited_message # <<>> THEN ss.edited_message ELSE ss.generated_message]

\* edit_prompt
EditPrompt(p, edit_instruction, ss) ==
    [shape |-> "edit", platform |-> p, edit_instruction |-> Strip(edit_instruction),
     original_message |-> ss.generated_message]

\* --------------------------------------------------------- session state

\* A key that was never set reads as empty through st.session_state.get.
EmptySession == [generated_message |-> <<>>, edited_message |-> <<>>, show_edit |-> FALSE]

OnGenerated_KeepEdit(ss, text) ==
    [ss EXCEPT !.generated_message = text, !.show_edit = TRUE]

\* the try branch of the generate handler
OnGenerated(ss, text) ==
    [ss EXCEPT !.generated_message = text, !.edited_message = <<>>, !.show_edit = TRUE]

OnGenerationFailed_Untouched(ss) == ss

\* the except branch of the generate handler
OnGenerationFailed(ss) == [ss EXCEPT !.generated_message = <<>>]

\* the try branch of the edit handler
OnEdited(ss, text) == [ss EXCEPT !.edited_message = text]

\* the except branch of the edit handler
OnEditFailed(ss) == ss

\* What the page shows below the buttons at the end of a run: the header and
\* the generated message when there is one, the refined message when there is
\* one.
Display(ss, p) ==
    [generated |-> IF ss.generated_message # <<>>
                   THEN <<[header_platform |-> p, text |-> ss.generated_message]>>
                   ELSE <<>>,
     refined |-> IF ss.edited_message # <<>> THEN <<ss.edited_message>> ELSE <<>>]

\* The edit text area and button are on the page.
EditShown(ss) == ss.generated_message # <<>> /\ ss.show_edit

\* ---------------------------------------------------------------- runs

GenerateOutcomes == {"no_input", "no_recipient", "generated", "generation_failed"}

EditOutcomes == {"no_instruction", "edited", "editing_failed"}

Init ==
    /\ platform = "LinkedIn"
    /\ message_type = "Generic"
    /\ uploaded_file = <<>>
    /\ session_state = EmptySession
    /\ outcome = "idle"
    /\ form = EmptyForm
    /\ sent = <<>>
    /\ received = <<>>
    /\ before = EmptySession
    /\ generated_for = "none"

\* A run in which no button was clicked: the session state is only read.
Idle ==
    /\ outcome' = "idle"
    /\ form' = EmptyForm
    /\ sent' = <<>>
    /\ received' = <<>>
    /\ before' = session_state
    /\ UNCHANGED <<session_state, generated_for>>

\* The user picks another platform.
SelectPlatform ==
    \E p \in Platforms \ {platform} :
        /\ platform' = p
        /\ Idle
        /\ UNCHANGED <<message_type, uploaded_file>>

\* The user picks another message type.
SelectMessageType ==
    \E m \in MessageTypes \ {message_type} :
        /\ message_type' = m
        /\ Idle
        /\ UNCHANGED <<platform, uploaded_file>>

\* The user uploads, replaces or removes the document.
Upload ==
    \E u \in Uploads \ {uploaded_file} :
        /\ uploaded_file' = u
        /\ Idle
        /\ UNCHANGED <<platform, message_type>>

\* The text inputs a run can read: custom_prompt and the personalization
\* fields exist only when message_type is Personalized.
GenerateForms(mtype) ==
    IF mtype = "Generic" THEN {EmptyForm}
    ELSE {[EmptyForm EXCEPT !.custom_prompt = cp, !.recipient_name = rn,
                            !.company_name = cn, !.job_title = jt] :
             cp \in CustomPrompts, rn \in RecipientNames, cn \in CompanyNames,
             jt \in JobTitles}

\* The user clicks the generate button.  The button is on the page only when
\* the last run got past the upload section.
Generate ==
    /\ ~ReaderRaises(uploaded_file)
    /\ \E f \in GenerateForms(message_type) :
        LET user_content == UserContent(uploaded_file)
        IN  /\ form' = f
            /\ before' = session_state
            /\ UNCHANGED <<platform, message_type, uploaded_file>>
            /\ IF NothingToGenerate(user_content, f.custom_prompt)
               THEN /\ outcome' = "no_input"
                    /\ sent' = <<>>
                    /\ received' = <<>>
                    /\ UNCHANGED <<session_state, generated_for>>
               ELSE IF MissingRecipient(message_type, f.custom_prompt,
                                        f.recipient_name, f.company_name)
               THEN /\ outcome' = "no_recipient"
                    /\ sent' = <<>>
                    /\ received' = <<>>
                    /\ UNCHANGED <<session_state, generated_for>>
               ELSE \E disk \in Disks, reply \in Replies :
                    /\ sent' = <<FinalPrompt(message_type, platform,
                                             load_sales_prompt(platform, disk),
                                             f, user_content)>>
                    /\ IF reply.ok
                       THEN /\ outcome' = "generated"
                            /\ received' = <<reply.text>>
                            /\ session_state' = OnGenerated(session_state, reply.text)
                            /\ generated_for' = platform
                       ELSE /\ outcome' = "generation_failed"
                            /\ received' = <<>>
                            /\ session_state' = OnGenerationFailed(session_state)
                            /\ UNCHANGED generated_for

\* The user clicks the edit button, which is on the page only under a
\* generated message.
Edit ==
    /\ ~ReaderRaises(uploaded_file)
    /\ EditShown(session_state)
    /\ \E ei \in EditInstructions :
        /\ form' = [EmptyForm EXCEPT !.edit_instruction = ei]
        /\ before' = session_state
        /\ UNCHANGED <<platform, message_type, uploaded_file, generated_for>>
        /\ IF Strip(ei) # <<>>
           THEN \E reply \in Replies :
                /\ sent' = <<EditPrompt(platform, ei, session_state)>>
                /\ IF reply.ok
                   THEN /\ outcome' = "edited"
                        /\ received' = <<reply.text>>
                        /\ session_state' = OnEdited(session_state, reply.text)
                   ELSE /\ outcome' = "editing_failed"
                        /\ received' = <<>>
                        /\ session_state' = OnEditFailed(session_state)
           ELSE /\ outcome' = "no_instruction"
                /\ sent' = <<>>
                /\ received' = <<>>
                /\ UNCHANGED session_state

Next == SelectPlatform \/ SelectMessageType \/ Upload \/ Generate \/ Edit

Spec == Init /\ [][Next]_vars

\* -------------------------------------------------------------- claims

\* The two session slots hold what the last run found in them.
SlotsUntouched ==
    /\ session_state.generated_message = before.generated_message
    /\ session_state.edited_message = before.edited_message

\* The last run called the model (from the generate handler).
GenerateCalled == outcome \in {"generated", "generation_failed"}

C2_EditedNeverWithoutGenerated ==
    /\ session_state.edited_message # <<>> => session_state.generated_message # <<>>
    /\ Display(session_state, platform).refined # <<>> =>
          Display(session_state, platform).generated # <<>>

\* C3: a generate action whose background text and custom instruction are
\* both empty after trimming calls no model, reports the validation error and
\* leaves both session slots unchanged, whatever the platform, the mode and
\* the session state.
C3_NoInputNoCall ==
    ( /\ outcome \in GenerateOutcomes
      /\ Strip(UserContent(uploaded_file)) = <<>>
      /\ Strip(form.custom_prompt) = <<>> )
    => /\ outcome = "no_input"
       /\ sent = <<>>
       /\ SlotsUntouched

\* A generate action in Personalized mode was rejected over a whitespace-only
\* document and a whitespace-only custom instruction, in a session that held
\* a generated message.
C3_Witness ==
    /\ outcome = "no_input"
    /\ message_type = "Personalized"
    /\ form.custom_prompt # <<>>
    /\ uploaded_file # <<>>
    /\ ~UnsupportedFileType(uploaded_file)
    /\ before.generated_message # <<>>

\* C4 as claimed: in Personalized mode a generate action with a non-empty
\* custom instruction calls the model even when recipient or company name is
\* empty, and with an empty custom instruction an empty recipient or company
\* name blocks it with no call.
C4_NamesRequiredOnlyWhenStructured ==
    ( /\ outcome \in GenerateOutcomes
      /\ message_type = "Personalized"
      /\ (Strip(form.recipient_name) = <<>> \/ Strip(form.company_name) = <<>>) )
    => /\ Strip(form.custom_prompt) # <<>> => sent # <<>>
       /\ form.custom_prompt = <<>> => sent = <<>>

\* C4 as amended: in Personalized mode a generate action whose recipient or
\* company name is empty after trimming calls no model and leaves both slots
\* unchanged, with or without a custom instruction; with a custom instruction
\* that is non-empty after trimming it is the recipient validation error that
\* is reported.  In Generic mode the names are not required.
C4_NamesRequiredWhenPersonalized ==
    /\ ( /\ outcome \in GenerateOutcomes
         /\ message_type = "Personalized"
         /\ (Strip(form.recipient_name) = <<>> \/ Strip(form.company_name) = <<>>) )
       => /\ sent = <<>>
          /\ outcome \in {"no_input", "no_recipient"}
          /\ SlotsUntouched
          /\ Strip(form.custom_prompt) # <<>> => outcome = "no_recipient"
    /\ outcome = "no_recipient" => message_type = "Personalized"

\* A generate action with a custom instruction was blocked for a missing name.
C4_Witness ==
    /\ outcome = "no_recipient"
    /\ Strip(form.custom_prompt) # <<>>
    /\ Strip(form.recipient_name) = <<>>

\* C5 as claimed: after an upload whose extension is not exactly docx, pdf,
\* pptx or txt, a generate action makes no call to the model, for every mode
\* and every value of the custom instruction and personalization fields.
C5_UnsupportedBlocksGenerate ==
    (UnsupportedFileType(uploaded_file) /\ outcome \in GenerateOutcomes) => sent = <<>>

\* C5 as amended: after such an upload the background text is empty, and a
\* generate action makes no call to the model when the custom instruction is
\* empty after trimming (so never in Generic mode); a call that is made is
\* made in Personalized mode with the custom shape and an empty background.
C5_UnsupportedMeansNoBackground ==
    (UnsupportedFileType(uploaded_file) /\ outcome \in GenerateOutcomes)
    => /\ Strip(form.custom_prompt) = <<>> => (outcome = "no_input" /\ sent = <<>>)
       /\ sent # <<>> =>
             /\ message_type = "Personalized"
             /\ sent[1].shape = "custom"
             /\ sent[1].user_content = <<>>

\* A generate action in Generic mode was blocked after the upload of a file
\* with an unsupported extension.
C5_Witness ==
    /\ UnsupportedFileType(uploaded_file)
    /\ message_type = "Generic"
    /\ outcome = "no_input"

\* C6: a successful generate action leaves the edited slot empty and the
\* generated slot holding the new result, from any prior state; after a
\* successful edit the generated slot holds what it held and the edited slot
\* holds the new edited text.
C6_GenerateResetsEdit ==
    /\ outcome = "generated" =>
          /\ session_state.edited_message = <<>>
          /\ session_state.generated_message = received[1]
    /\ outcome = "edited" =>
          /\ session_state.generated_message = before.generated_message
          /\ session_state.edited_message = received[1]

\* A generate action succeeded in a session that held an edited message.
C6_Witness ==
    /\ outcome = "generated"
    /\ before.edited_message # <<>>
    /\ session_state.generated_message # <<>>

\* C7: for every generate action that passes validation, Generic mode yields
\* the generic shape; Personalized mode with an empty custom instruction
\* yields the personalized shape, with the template and the name, company and
\* job title; Personalized mode with a non-empty custom instruction yields
\* the custom shape, which carries no template.
C7_ShapeSelection ==
    GenerateCalled =>
        LET final_prompt == sent[1]
        IN  /\ final_prompt.shape \in {"generic", "custom", "personalized"}
            /\ message_type = "Generic" =>
                  /\ final_prompt.shape = "generic"
                  /\ "prompt_template" \in DOMAIN final_prompt
            /\ (message_type = "Personalized" /\ form.custom_prompt = <<>>) =>
                  /\ final_prompt.shape = "personalized"
                  /\ "prompt_template" \in DOMAIN final_prompt
                  /\ final_prompt.recipient_name = form.recipient_name
                  /\ final_prompt.company_name = form.company_name
                  /\ final_prompt.job_title = form.job_title
            /\ (message_type = "Personalized" /\ form.custom_prompt # <<>>) =>
                  /\ final_prompt.shape = "custom"
                  /\ final_prompt.custom_prompt = form.custom_prompt
                  /\ "prompt_template" \notin DOMAIN final_prompt

\* A prompt of the custom shape was sent for a custom instruction that is
\* whitespace only.
C7_Witness ==
    /\ GenerateCalled
    /\ message_type = "Personalized"
    /\ form.custom_prompt # <<>>
    /\ Strip(form.custom_prompt) = <<>>
    /\ sent[1].shape = "custom"

\* C8: in each prompt shape the background in the prompt sent to the model is
\* the first 10,000 characters of the extracted text when that is longer, and
\* the whole extracted text otherwise; it is never longer than 10,000.
C8_BackgroundTruncated ==
    GenerateCalled =>
        LET background == sent[1].user_content
            user_content == UserContent(uploaded_file)
        IN  /\ IsPrefix(background, user_content)
            /\ TextLen(background) = Min(TextLen(user_content), MaxBackground)
            /\ TextLen(background) <= MaxBackground
            /\ TextLen(user_content) <= MaxBackground => background = user_content

\* A prompt was sent whose background is the cut of a longer document.
C8_Witness ==
    /\ GenerateCalled
    /\ TextLen(UserContent(uploaded_file)) > MaxBackground
    /\ TextLen(sent[1].user_content) = MaxBackground
    /\ sent[1].shape = "personalized"

\* C9: the revision prompt of every successful edit embeds the generated
\* message of the session as its original message, never an edited message,
\* and the edit overwrites the edited slot and leaves the generated slot.
C9_EditsReviseOriginal ==
    outcome = "edited" =>
        /\ sent[1].original_message = before.generated_message
        /\ session_state.generated_message = before.generated_message
        /\ session_state.edited_message = received[1]

\* An edit succeeded in a session that already held an edited message other
\* than the generated one.
C9_Witness ==
    /\ outcome = "edited"
    /\ before.edited_message # <<>>
    /\ before.edited_message # before.generated_message
    /\ session_state.edited_message # before.edited_message

\* C10: the platform named in the revision prompt of an edit action, and in
\* the header over the generated message, is the platform for which the
\* stored generated message was produced.
C10_PlatformOfStoredMessage ==
    /\ outcome \in {"edited", "editing_failed"} => sent[1].platform = generated_for
    /\ Display(session_state, platform).generated # <<>> =>
          Display(session_state, platform).generated[1].header_platform = generated_for

====
